---- MODULE Spec2Model ----
(***************************************************************************)
(* A model of build.py, the release packager of PulsoidWidget to OSC.      *)
(*                                                                         *)
(* The state is the file system the script works on (the script's          *)
(* directory, the output directory, the temporary directories), and, per   *)
(* invocation of the script, the position of the interpreter in main() /   *)
(* build_release() together with its locals and its console output.        *)
(*                                                                         *)
(* A path is a sequence of path components; a path relative to a           *)
(* directory is the sequence of components below it.  A directory tree is  *)
(* a record [files, dirs]: files maps the path of every regular file to    *)
(* its bytes (a string), dirs is the set of the paths of the directories.  *)
(*                                                                         *)
(* __file__ is taken to be absolute (CPython 3.9 and later make the        *)
(* __file__ of the main module absolute), so that Path(__file__).parent    *)
(* and its .parent are two different directories.                          *)
(***************************************************************************)
EXTENDS Integers, Sequences, FiniteSets, TLC

VARIABLES
    src,        \* the tree of the script's directory, relative to it
    out,        \* the archives of the output directory: absolute path -> archive
    tmp,        \* the live temporary directories: name -> tree relative to it
    pc,         \* per invocation: where the interpreter stands
    argv,       \* per invocation: sys.argv[1:]
    version,    \* per invocation: the local `version` of main / build_release
    idx,        \* per invocation: position of the for loop in INCLUDE
    tempDir,    \* per invocation: temp_dir, the name TemporaryDirectory() returned
    log,        \* per invocation: the lines printed so far
    result,     \* per invocation: what build_release returned
    raised,     \* per invocation: <<step, exception>> that ended the run
    metaRead,   \* per invocation: whether package.json has been opened
    outAtStart, \* per invocation: `out` as it was when the invocation started
    rid,        \* per invocation: its number in the order of starts
    runs,       \* the number of invocations started so far
    edits,      \* the number of changes made to the script's directory
    unlinked,   \* the deletions done: <<number of the invocation, writer of the file>>
    vanished,   \* the invocations ended by a file that was gone: <<number, step>>
    srcAt       \* per invocation number: `src` as it was when the invocation started

vars == <<src, out, tmp, pc, argv, version, idx, tempDir, log, result,
          raised, metaRead, outAtStart, rid, runs, edits, unlinked,
          vanished, srcAt>>

-----------------------------------------------------------------------------
(* Bounds of the model.                                                    *)

\* At most this many include entries are missing from the initial tree.
MaxMissing == 2
\* At most this many invocations of the script in the sequential re-run model.
MaxRuns == 2
\* At most this many changes to the script's directory between invocations.
MaxEdits == 1
\* At most this many invocations of the script in the concurrent model.
MaxRaceRuns == 3

\* The invocations (operating-system processes running the script).
Procs == {1, 2}
\* The names tempfile can give a temporary directory.
TempNames == {"tmpa", "tmpb"}

-----------------------------------------------------------------------------
(* Program constants.                                                      *)

INCLUDE ==
    << "code", "LICENSE", "README.md", "OSC_CONFIG_README.md",
       "osc_parameters.json", "package.json", "package-lock.json",
       "pulsoid_widget_osc.vrmanifest", "run.bat", "widget_id.txt.template" >>

\* Path(__file__).parent
ScriptDir == << "Z:", "Hearttrate", "Pulsoid-Widget-to-VRChat-OSC" >>

NoPath == << >>
NoTemp == "-"
NoVersion == "-"
NoError == << >>

-----------------------------------------------------------------------------
(* Paths and trees.                                                        *)

\* pathlib's Path.parent
Parent(path) == SubSeq(path, 1, Len(path) - 1)

\* pathlib's `path / name`, for a name of one component
Join(path, name) == Append(path, name)

IsPrefix(a, b) == Len(a) <= Len(b) /\ SubSeq(b, 1, Len(a)) = a

\* str(path)
RECURSIVE PathStr(_)
PathStr(path) ==
    IF Len(path) = 0 THEN "."
    ELSE IF Len(path) = 1 THEN path[1]
    ELSE PathStr(Parent(path)) \o "/" \o path[Len(path)]

EmptyTree == [files |-> << >>, dirs |-> {}]

\* Path.exists()
Exists(tree, path) == path \in DOMAIN tree.files \/ path \in tree.dirs

\* Path.is_dir()
IsDir(tree, path) == path \in tree.dirs

\* Path.mkdir()
MkdirIn(tree, path) == [tree EXCEPT !.dirs = @ \cup {path}]

\* shutil.copy2(src, dst): the file at `from` of `tree` is written at `to` of `dest`
Copy2(tree, from, dest, to) ==
    [dest EXCEPT !.files = (to :> tree.files[from]) @@ @]

\* Mutant of CopyTree: only the files directly in the directory are copied.
CopyTreeShallow(tree, from, dest, to) ==
    LET fs == {q \in DOMAIN tree.files : IsPrefix(from, q) /\ Len(q) = Len(from) + 1}
    IN  [files |-> [m \in {to \o SubSeq(q, Len(from) + 1, Len(q)) : q \in fs} |->
                       tree.files[from \o SubSeq(m, Len(to) + 1, Len(m))]]
                   @@ dest.files,
         dirs  |-> dest.dirs \cup {to}]

\* shutil.copytree(src, dst): dst is created, and every directory and file
\* below src is created below dst at the same relative path
CopyTree(tree, from, dest, to) ==
    LET Move(q) == to \o SubSeq(q, Len(from) + 1, Len(q))
        fs == {q \in DOMAIN tree.files : IsPrefix(from, q)}
        ds == {q \in tree.dirs : IsPrefix(from, q)}
    IN  [files |-> [m \in {Move(q) : q \in fs} |->
                       tree.files[from \o SubSeq(m, Len(to) + 1, Len(m))]]
                   @@ dest.files,
         dirs  |-> dest.dirs \cup {Move(q) : q \in ds}]

-----------------------------------------------------------------------------
(* get_version_from_package                                                *)

\* The texts package.json may hold.
PackageTexts ==
    { "{\"version\": \"2.0.0\"}", "{\"name\": \"pulsoid\"}", "[]", "{\"version\": " }

\* json.load on these texts: the text is a JSON document or not, the
\* document is an object or not, and the object's fields.
JsonLoad(text) ==
    CASE text = "{\"version\": \"2.0.0\"}" ->
            [valid |-> TRUE, object |-> TRUE, fields |-> [version |-> "2.0.0"]]
      [] text = "{\"name\": \"pulsoid\"}" ->
            [valid |-> TRUE, object |-> TRUE, fields |-> [name |-> "pulsoid"]]
      [] text = "[]" ->
            [valid |-> TRUE, object |-> FALSE, fields |-> << >>]
      [] OTHER ->
            [valid |-> FALSE, object |-> FALSE, fields |-> << >>]

\* dict.get(key, default)
DictGet(fields, key, default) ==
    IF key \in DOMAIN fields THEN fields[key] ELSE default

\* Path(__file__).parent / "package.json", relative to the script's directory
PackagePath == << "package.json" >>

\* Mutant of GetVersionFromPackage: any failure gives the default version.
GetVersionOrDefault(tree) ==
    IF PackagePath \notin DOMAIN tree.files
    THEN [exc |-> "", value |-> "0.0.0"]
    ELSE LET data == JsonLoad(tree.files[PackagePath])
         IN  IF ~data.valid \/ ~data.object
             THEN [exc |-> "", value |-> "0.0.0"]
             ELSE [exc |-> "", value |-> DictGet(data.fields, "version", "0.0.0")]

\* The outcome of get_version_from_package on the tree: the exception it
\* raises (NoError when it returns) and the value it returns.
GetVersionFromPackage(tree) ==
    IF PackagePath \notin DOMAIN tree.files
    THEN [exc |-> IF PackagePath \in tree.dirs THEN "IsADirectoryError"
                  ELSE "FileNotFoundError",
          value |-> NoVersion]
    ELSE LET data == JsonLoad(tree.files[PackagePath])
         IN  IF ~data.valid
             THEN [exc |-> "JSONDecodeError", value |-> NoVersion]
             ELSE IF ~data.object
             THEN [exc |-> "AttributeError", value |-> NoVersion]
             ELSE [exc |-> "", value |-> DictGet(data.fields, "version", "0.0.0")]

-----------------------------------------------------------------------------
(* build_release: its locals.                                              *)

\* output_dir = script_dir.parent
OutputDir == Parent(ScriptDir)

\* Mutant of ZipName: the "v" before the version is left out.
ZipNameNoV(v) == "PulsoidWidget-to-OSC-" \o v

\* zip_name = f"PulsoidWidget-to-OSC-v{version}"
ZipName(v) == "PulsoidWidget-to-OSC-v" \o v

\* zip_path = output_dir / f"{zip_name}.zip"
ZipPath(v) == Join(OutputDir, ZipName(v) \o ".zip")

\* The file shutil.make_archive(str(output_dir / zip_name), 'zip', ...)
\* writes: base_name + ".zip"
ArchiveFile(v) ==
    LET base_name == Join(OutputDir, ZipName(v))
    IN  Join(Parent(base_name), base_name[Len(base_name)] \o ".zip")

\* The members shutil.make_archive(base_name, 'zip', root_dir, base_dir)
\* stores: base_dir itself and every directory and file below it, each
\* under its path relative to root_dir.
ArchiveMembers(root, base_dir) ==
    [files |-> [m \in {q \in DOMAIN root.files : IsPrefix(<< base_dir >>, q)} |->
                   root.files[m]],
     dirs  |-> {q \in root.dirs : IsPrefix(<< base_dir >>, q)}]

\* The zip file written by invocation number `by`
Archive(root, base_dir, by) ==
    [kind |-> "zip", members |-> ArchiveMembers(root, base_dir), writer |-> by]

\* What a failed make_archive may leave at the archive's path
PartialArchive(by) ==
    [kind |-> "partial", members |-> EmptyTree, writer |-> by]

\* Mutant of Mkdtemp: a name a live temporary directory may have.
MkdtempAny(tmpv) == TempNames

\* tempfile.TemporaryDirectory(): a name no live temporary directory has
Mkdtemp(tmpv) == TempNames \ DOMAIN tmpv

\* Mutant of Cleanup: the directory is left behind.
CleanupLeak(tmpv, t) == tmpv

\* TemporaryDirectory.__exit__: the directory and all it holds are removed
Cleanup(tmpv, t) == [x \in DOMAIN tmpv \ {t} |-> tmpv[x]]

\* Path.unlink()
Unlink(outv, path) == [x \in DOMAIN outv \ {path} |-> outv[x]]

\* Writing a file at a path, replacing what is there
WriteFile(outv, path, file) == (path :> file) @@ outv

-----------------------------------------------------------------------------
(* The steps of one invocation.                                            *)

Set(f, p, v) == [f EXCEPT ![p] = v]

\* print(line)
Say(p, lines) == log' = [log EXCEPT ![p] = @ \o lines]

\* An exception leaves the invocation: nothing of main or build_release
\* catches it, so the interpreter prints the traceback and exits.
Raise(p, step, exc) ==
    /\ pc' = Set(pc, p, "raised")
    /\ raised' = Set(raised, p, << step, exc >>)
    /\ vanished' = IF exc = "FileNotFoundError" /\ step \in {"unlink", "stat"}
                   THEN vanished \cup {<< rid[p], step >>}
                   ELSE vanished

\* What sys.argv[1:] may be.
ArgvSet == { << >>, << "9.9.9" >>, << "1.1.1", "--clean" >> }

\* Mutant of Invoke: package.json is consulted whatever the arguments are.
InvokePackageFirst(p, args) ==
    /\ argv' = Set(argv, p, args)
    /\ version' = Set(version, p, IF Len(args) > 0 THEN args[1] ELSE NoVersion)
    /\ pc' = Set(pc, p, "getver")
    /\ idx' = Set(idx, p, 0)
    /\ tempDir' = Set(tempDir, p, NoTemp)
    /\ log' = Set(log, p, << >>)
    /\ result' = Set(result, p, NoPath)
    /\ raised' = Set(raised, p, NoError)
    /\ metaRead' = Set(metaRead, p, FALSE)
    /\ outAtStart' = Set(outAtStart, p, out)
    /\ runs' = runs + 1
    /\ rid' = Set(rid, p, runs + 1)
    /\ srcAt' = Append(srcAt, src)
    /\ UNCHANGED << src, out, tmp, edits, unlinked, vanished >>

\* The script is started: a fresh interpreter, no output yet.  main() takes
\* the version from sys.argv[1] when there is one.
Invoke(p, args) ==
    /\ argv' = Set(argv, p, args)
    /\ version' = Set(version, p, IF Len(args) > 0 THEN args[1] ELSE NoVersion)
    /\ pc' = Set(pc, p, IF Len(args) > 0 THEN "build" ELSE "getver")
    /\ idx' = Set(idx, p, 0)
    /\ tempDir' = Set(tempDir, p, NoTemp)
    /\ log' = Set(log, p, << >>)
    /\ result' = Set(result, p, NoPath)
    /\ raised' = Set(raised, p, NoError)
    /\ metaRead' = Set(metaRead, p, FALSE)
    /\ outAtStart' = Set(outAtStart, p, out)
    /\ runs' = runs + 1
    /\ rid' = Set(rid, p, runs + 1)
    /\ srcAt' = Append(srcAt, src)
    /\ UNCHANGED << src, out, tmp, edits, unlinked, vanished >>

\* main(), lines 86-87, in a process that has not run the script yet
Main(p) ==
    /\ pc[p] = "idle"
    /\ \E args \in ArgvSet : Invoke(p, args)

\* main(), lines 89-90: version = get_version_from_package()
GetVersion(p) ==
    /\ pc[p] = "getver"
    /\ metaRead' = Set(metaRead, p, TRUE)
    /\ LET r == GetVersionFromPackage(src)
       IN  IF r.exc # ""
           THEN /\ Raise(p, "get_version_from_package", r.exc)
                /\ UNCHANGED << version, log >>
           ELSE /\ version' = Set(version, p, r.value)
                /\ Say(p, << "[INFO] No version specified, using package.json: v"
                               \o r.value >>)
                /\ pc' = Set(pc, p, "build")
                /\ UNCHANGED << raised, vanished >>
    /\ UNCHANGED << src, out, tmp, argv, idx, tempDir, result, outAtStart,
                    rid, runs, edits, unlinked, srcAt >>

\* open(package_path) refused by the operating system (file unreadable)
GetVersionFault(p) ==
    /\ pc[p] = "getver"
    /\ PackagePath \in DOMAIN src.files
    /\ metaRead' = Set(metaRead, p, TRUE)
    /\ Raise(p, "get_version_from_package", "PermissionError")
    /\ UNCHANGED << src, out, tmp, argv, version, idx, tempDir, log, result,
                    outAtStart, rid, runs, edits, unlinked, srcAt >>

\* build_release, lines 41-50: the two prints, then the with statement
\* creates the temporary directory
BuildStart(p) ==
    /\ pc[p] = "build"
    /\ Say(p, << "[BUILD] Creating release v" \o version[p],
                 "[BUILD] Output: " \o PathStr(ZipPath(version[p])) >>)
    /\ \E t \in Mkdtemp(tmp) :
          /\ tmp' = (t :> EmptyTree) @@ tmp
          /\ tempDir' = Set(tempDir, p, t)
    /\ pc' = Set(pc, p, "mkdir")
    /\ UNCHANGED << src, out, argv, version, idx, result, raised, metaRead,
                    outAtStart, rid, runs, edits, unlinked, vanished, srcAt >>

\* tempfile.TemporaryDirectory() fails: no directory has been created
BuildStartFault(p) ==
    /\ pc[p] = "build"
    /\ Say(p, << "[BUILD] Creating release v" \o version[p],
                 "[BUILD] Output: " \o PathStr(ZipPath(version[p])) >>)
    /\ Raise(p, "TemporaryDirectory", "OSError")
    /\ UNCHANGED << src, out, tmp, argv, version, idx, tempDir, result,
                    metaRead, outAtStart, rid, runs, edits, unlinked, srcAt >>

\* Mutant of Mkdir: the old archive is deleted here, before the copying.
MkdirUnlinkFirst(p) ==
    /\ pc[p] = "mkdir"
    /\ tmp' = [tmp EXCEPT ![tempDir[p]] = MkdirIn(@, << ZipName(version[p]) >>)]
    /\ out' = [x \in DOMAIN out \ {ZipPath(version[p])} |-> out[x]]
    /\ unlinked' = IF ZipPath(version[p]) \in DOMAIN out
                   THEN unlinked \cup {<< rid[p], out[ZipPath(version[p])].writer >>}
                   ELSE unlinked
    /\ idx' = Set(idx, p, 1)
    /\ pc' = Set(pc, p, "loop")
    /\ UNCHANGED << src, argv, version, tempDir, log, result, raised,
                    metaRead, outAtStart, rid, runs, edits, vanished, srcAt >>

\* lines 51-52: temp_path = Path(temp_dir) / zip_name; temp_path.mkdir()
Mkdir(p) ==
    /\ pc[p] = "mkdir"
    /\ tmp' = [tmp EXCEPT ![tempDir[p]] = MkdirIn(@, << ZipName(version[p]) >>)]
    /\ idx' = Set(idx, p, 1)
    /\ pc' = Set(pc, p, "loop")
    /\ UNCHANGED << src, out, argv, version, tempDir, log, result, raised,
                    metaRead, outAtStart, rid, runs, edits, unlinked,
                    vanished, srcAt >>

\* temp_path.mkdir() fails; the with statement removes the directory
MkdirFault(p) ==
    /\ pc[p] = "mkdir"
    /\ tmp' = Cleanup(tmp, tempDir[p])
    /\ Raise(p, "mkdir", "OSError")
    /\ UNCHANGED << src, out, argv, version, idx, tempDir, log, result,
                    metaRead, outAtStart, rid, runs, edits, unlinked, srcAt >>

\* Mutant of CopyItem: no exists() test, so copying a missing entry raises.
CopyItemUnguarded(p) ==
    /\ pc[p] = "loop"
    /\ LET item == INCLUDE[idx[p]]
           from == << item >>
           to   == << ZipName(version[p]), item >>
           t    == tempDir[p]
       IN  IF ~Exists(src, from)
           THEN /\ tmp' = [x \in DOMAIN tmp \ {t} |-> tmp[x]]
                /\ Raise(p, "copy", "FileNotFoundError")
                /\ UNCHANGED << idx, log >>
           ELSE /\ IF IsDir(src, from)
                   THEN /\ tmp' = [tmp EXCEPT ![t] = CopyTree(src, from, @, to)]
                        /\ Say(p, << "[OK] Copied directory: " \o item >>)
                   ELSE /\ tmp' = [tmp EXCEPT ![t] = Copy2(src, from, @, to)]
                        /\ Say(p, << "[OK] Copied file: " \o item >>)
                /\ idx' = Set(idx, p, idx[p] + 1)
                /\ pc' = Set(pc, p, IF idx[p] = Len(INCLUDE) THEN "exists" ELSE "loop")
                /\ UNCHANGED << raised, vanished >>
    /\ UNCHANGED << src, out, argv, version, tempDir, result, metaRead,
                    outAtStart, rid, runs, edits, unlinked, srcAt >>

\* lines 55-68: one iteration of the for loop
CopyItem(p) ==
    /\ pc[p] = "loop"
    /\ LET item == INCLUDE[idx[p]]
           from == << item >>
           to   == << ZipName(version[p]), item >>
           t    == tempDir[p]
       IN  IF ~Exists(src, from)
           THEN /\ Say(p, << "[WARN] Missing: " \o item >>)
                /\ tmp' = tmp
           ELSE IF IsDir(src, from)
           THEN /\ tmp' = [tmp EXCEPT ![t] = CopyTree(src, from, @, to)]
                /\ Say(p, << "[OK] Copied directory: " \o item >>)
           ELSE /\ tmp' = [tmp EXCEPT ![t] = Copy2(src, from, @, to)]
                /\ Say(p, << "[OK] Copied file: " \o item >>)
    /\ idx' = Set(idx, p, idx[p] + 1)
    /\ pc' = Set(pc, p, IF idx[p] = Len(INCLUDE) THEN "exists" ELSE "loop")
    /\ UNCHANGED << src, out, argv, version, tempDir, result, raised,
                    metaRead, outAtStart, rid, runs, edits, unlinked,
                    vanished, srcAt >>

\* shutil.copytree / shutil.copy2 fails on an entry that exists; the with
\* statement removes the temporary directory
CopyFault(p) ==
    /\ pc[p] = "loop"
    /\ Exists(src, << INCLUDE[idx[p]] >>)
    /\ tmp' = Cleanup(tmp, tempDir[p])
    /\ Raise(p, "copy", "OSError")
    /\ UNCHANGED << src, out, argv, version, idx, tempDir, log, result,
                    metaRead, outAtStart, rid, runs, edits, unlinked, srcAt >>

\* line 71: if zip_path.exists()
CheckExists(p) ==
    /\ pc[p] = "exists"
    /\ pc' = Set(pc, p, IF ZipPath(version[p]) \in DOMAIN out
                         THEN "unlink" ELSE "archive")
    /\ UNCHANGED << src, out, tmp, argv, version, idx, tempDir, log, result,
                    raised, metaRead, outAtStart, rid, runs, edits, unlinked,
                    vanished, srcAt >>

\* line 72: zip_path.unlink()
UnlinkOld(p) ==
    /\ pc[p] = "unlink"
    /\ ZipPath(version[p]) \in DOMAIN out
    /\ out' = Unlink(out, ZipPath(version[p]))
    /\ unlinked' = unlinked \cup {<< rid[p], out[ZipPath(version[p])].writer >>}
    /\ pc' = Set(pc, p, "archive")
    /\ UNCHANGED << src, tmp, argv, version, idx, tempDir, log, result,
                    raised, metaRead, outAtStart, rid, runs, edits, vanished,
                    srcAt >>

\* line 72 when the file is no longer there: unlink raises
UnlinkGone(p) ==
    /\ pc[p] = "unlink"
    /\ ZipPath(version[p]) \notin DOMAIN out
    /\ tmp' = Cleanup(tmp, tempDir[p])
    /\ Raise(p, "unlink", "FileNotFoundError")
    /\ UNCHANGED << src, out, argv, version, idx, tempDir, log, result,
                    metaRead, outAtStart, rid, runs, edits, unlinked, srcAt >>

\* Mutant of UnlinkFault: the refusal is swallowed and the run goes on.
UnlinkFaultIgnored(p) ==
    /\ pc[p] = "unlink"
    /\ ZipPath(version[p]) \in DOMAIN out
    /\ pc' = Set(pc, p, "archive")
    /\ UNCHANGED << src, out, tmp, argv, version, idx, tempDir, log, result,
                    raised, metaRead, outAtStart, rid, runs, edits, unlinked,
                    vanished, srcAt >>

\* line 72 refused by the operating system
UnlinkFault(p) ==
    /\ pc[p] = "unlink"
    /\ ZipPath(version[p]) \in DOMAIN out
    /\ tmp' = Cleanup(tmp, tempDir[p])
    /\ Raise(p, "unlink", "PermissionError")
    /\ UNCHANGED << src, out, argv, version, idx, tempDir, log, result,
                    metaRead, outAtStart, rid, runs, edits, unlinked, srcAt >>

\* Mutant of MakeArchive: the members are added to those of the archive the
\* run found at its start (the zip updated instead of written anew).
MakeArchiveMerge(p) ==
    /\ pc[p] = "archive"
    /\ LET zp == ArchiveFile(version[p])
           new == Archive(tmp[tempDir[p]], ZipName(version[p]), rid[p])
           old == IF zp \in DOMAIN outAtStart[p] THEN outAtStart[p][zp].members
                  ELSE EmptyTree
       IN  out' = WriteFile(out, zp,
                      [new EXCEPT !.members =
                           [files |-> new.members.files @@ old.files,
                            dirs  |-> new.members.dirs \cup old.dirs]])
    /\ tmp' = Cleanup(tmp, tempDir[p])
    /\ pc' = Set(pc, p, "report")
    /\ UNCHANGED << src, argv, version, idx, tempDir, log, result, raised,
                    metaRead, outAtStart, rid, runs, edits, unlinked,
                    vanished, srcAt >>

\* lines 74-79: shutil.make_archive, then the with statement ends and
\* removes the temporary directory
MakeArchive(p) ==
    /\ pc[p] = "archive"
    /\ out' = WriteFile(out, ArchiveFile(version[p]),
                        Archive(tmp[tempDir[p]], ZipName(version[p]), rid[p]))
    /\ tmp' = Cleanup(tmp, tempDir[p])
    /\ pc' = Set(pc, p, "report")
    /\ UNCHANGED << src, argv, version, idx, tempDir, log, result, raised,
                    metaRead, outAtStart, rid, runs, edits, unlinked,
                    vanished, srcAt >>

\* shutil.make_archive fails (disk full, directory unwritable): it leaves
\* nothing or a truncated file; the with statement removes the temporary
\* directory
ArchiveFault(p) ==
    /\ pc[p] = "archive"
    /\ \E partial \in BOOLEAN :
          out' = IF partial
                 THEN WriteFile(out, ArchiveFile(version[p]), PartialArchive(rid[p]))
                 ELSE out
    /\ tmp' = Cleanup(tmp, tempDir[p])
    /\ Raise(p, "make_archive", "OSError")
    /\ UNCHANGED << src, argv, version, idx, tempDir, log, result, metaRead,
                    outAtStart, rid, runs, edits, unlinked, srcAt >>

\* lines 81-83: the two prints (the second calls zip_path.stat()) and the
\* return
Report(p) ==
    /\ pc[p] = "report"
    /\ ZipPath(version[p]) \in DOMAIN out
    /\ Say(p, << "[BUILD] Done! Created: " \o PathStr(ZipPath(version[p])),
                 "[BUILD] Size" >>)
    /\ result' = Set(result, p, ZipPath(version[p]))
    /\ pc' = Set(pc, p, "done")
    /\ UNCHANGED << src, out, tmp, argv, version, idx, tempDir, raised,
                    metaRead, outAtStart, rid, runs, edits, unlinked,
                    vanished, srcAt >>

\* line 82 when the archive is no longer there: zip_path.stat() raises
ReportGone(p) ==
    /\ pc[p] = "report"
    /\ ZipPath(version[p]) \notin DOMAIN out
    /\ Say(p, << "[BUILD] Done! Created: " \o PathStr(ZipPath(version[p])) >>)
    /\ Raise(p, "stat", "FileNotFoundError")
    /\ UNCHANGED << src, out, tmp, argv, version, idx, tempDir, result,
                    metaRead, outAtStart, rid, runs, edits, unlinked, srcAt >>

-----------------------------------------------------------------------------
(* Initial states.                                                         *)

Range(s) == {s[i] : i \in DOMAIN s}

\* The files the code directory may hold.
CodeLayouts ==
    { {},
      { << "code", "index.js" >> },
      { << "code", "index.js" >>, << "code", "lib", "osc.js" >> } }

\* A file of the script's directory that INCLUDE does not list (personal
\* configuration).
Private == << "widget_id.txt" >>

\* The script's directory: the include entries but `missing`, code being a
\* directory with the files `layout`, package.json holding `text`.
SourceTree(missing, layout, text) ==
    LET names == Range(INCLUDE) \ (missing \cup {"code"})
        hasCode == "code" \notin missing
    IN  [files |-> [q \in {<< n >> : n \in names} |->
                       IF q = PackagePath THEN text ELSE "d1"]
                   @@ [q \in (IF hasCode THEN layout ELSE {}) |-> "d1"]
                   @@ (Private :> "d1"),
         dirs  |-> IF hasCode
                   THEN {<< "code" >>} \cup {Parent(q) : q \in layout}
                   ELSE {}]

\* An archive left by an earlier release build.
OldArchive(v) ==
    [kind |-> "zip",
     members |-> [files |-> (<< ZipName(v), "README.md" >> :> "d0")
                            @@ (<< ZipName(v), "CHANGELOG.md" >> :> "d0"),
                  dirs  |-> {<< ZipName(v) >>}],
     writer |-> 0]

\* The versions an old archive may be of.
OldVersions == {"9.9.9", "2.0.0"}

\* The output directory: empty, or holding one old archive.
OutputDirs == { << >> } \cup { ZipPath(v) :> OldArchive(v) : v \in OldVersions }

InitProcs ==
    /\ tmp = << >>
    /\ pc = [p \in Procs |-> "idle"]
    /\ argv = [p \in Procs |-> << >>]
    /\ version = [p \in Procs |-> NoVersion]
    /\ idx = [p \in Procs |-> 0]
    /\ tempDir = [p \in Procs |-> NoTemp]
    /\ log = [p \in Procs |-> << >>]
    /\ result = [p \in Procs |-> NoPath]
    /\ raised = [p \in Procs |-> NoError]
    /\ metaRead = [p \in Procs |-> FALSE]
    /\ outAtStart = [p \in Procs |-> << >>]
    /\ rid = [p \in Procs |-> 0]
    /\ runs = 0
    /\ edits = 0
    /\ unlinked = {}
    /\ vanished = {}
    /\ srcAt = << >>

Init ==
    /\ \E missing \in SUBSET Range(INCLUDE), layout \in CodeLayouts,
          text \in PackageTexts :
          /\ Cardinality(missing) <= MaxMissing
          /\ src = SourceTree(missing, layout, text)
    /\ out \in OutputDirs
    /\ InitProcs

\* One invocation of the script, with the vanished the operating system
\* may answer any of its steps with.
Next ==
    \E p \in {1} :
        \/ Main(p)
        \/ GetVersion(p)
        \/ GetVersionFault(p)
        \/ BuildStart(p)
        \/ BuildStartFault(p)
        \/ Mkdir(p)
        \/ MkdirFault(p)
        \/ CopyItem(p)
        \/ CopyFault(p)
        \/ CheckExists(p)
        \/ UnlinkOld(p)
        \/ UnlinkFault(p)
        \/ MakeArchive(p)
        \/ ArchiveFault(p)
        \/ Report(p)

Spec == Init /\ [][Next]_vars

-----------------------------------------------------------------------------
(* The script run again, the script's directory changing in between.       *)

\* The script is started again once the previous invocation has ended.
Rerun(p) ==
    /\ pc[p] \in {"done", "raised"}
    /\ runs < MaxRuns
    /\ \E args \in ArgvSet : Invoke(p, args)

\* The include entries that are changed between invocations.
Volatile == {"code", "README.md"}

Quiet == \A p \in Procs : pc[p] \in {"idle", "done", "raised"}

\* Between two invocations, an include entry is deleted.
RemoveEntry ==
    /\ Quiet /\ runs \in 1 .. MaxRuns - 1 /\ edits < MaxEdits
    /\ \E name \in Volatile :
          /\ Exists(src, << name >>)
          /\ src' = [files |-> [q \in {r \in DOMAIN src.files : r[1] # name} |->
                                   src.files[q]],
                     dirs  |-> {r \in src.dirs : r[1] # name}]
    /\ edits' = edits + 1
    /\ UNCHANGED << out, tmp, pc, argv, version, idx, tempDir, log, result,
                    raised, metaRead, outAtStart, rid, runs, unlinked,
                    vanished, srcAt >>

\* Between two invocations, a file of an include entry is rewritten.
EditFile ==
    /\ Quiet /\ runs \in 1 .. MaxRuns - 1 /\ edits < MaxEdits
    /\ \E q \in DOMAIN src.files :
          /\ q[1] \in Volatile
          /\ \E bytes \in {"d1", "d2"} \ {src.files[q]} :
                src' = [src EXCEPT !.files[q] = bytes]
    /\ edits' = edits + 1
    /\ UNCHANGED << out, tmp, pc, argv, version, idx, tempDir, log, result,
                    raised, metaRead, outAtStart, rid, runs, unlinked,
                    vanished, srcAt >>

\* Between two invocations, a file is added to the code directory.
AddFile ==
    /\ Quiet /\ runs \in 1 .. MaxRuns - 1 /\ edits < MaxEdits
    /\ IsDir(src, << "code" >>)
    /\ << "code", "new.js" >> \notin DOMAIN src.files
    /\ src' = [src EXCEPT !.files = (<< "code", "new.js" >> :> "d1") @@ @]
    /\ edits' = edits + 1
    /\ UNCHANGED << out, tmp, pc, argv, version, idx, tempDir, log, result,
                    raised, metaRead, outAtStart, rid, runs, unlinked,
                    vanished, srcAt >>

\* The complete source tree of a checkout.
FullTree ==
    SourceTree({}, { << "code", "index.js" >>, << "code", "lib", "osc.js" >> },
               "{\"version\": \"2.0.0\"}")

InitTwice ==
    /\ src = FullTree
    /\ out \in OutputDirs
    /\ InitProcs

NextTwice ==
    \/ \E p \in {1} :
        \/ Main(p)
        \/ Rerun(p)
        \/ GetVersion(p)
        \/ GetVersionFault(p)
        \/ BuildStart(p)
        \/ BuildStartFault(p)
        \/ Mkdir(p)
        \/ MkdirFault(p)
        \/ CopyItem(p)
        \/ CopyFault(p)
        \/ CheckExists(p)
        \/ UnlinkOld(p)
        \/ UnlinkFault(p)
        \/ MakeArchive(p)
        \/ ArchiveFault(p)
        \/ Report(p)
    \/ RemoveEntry
    \/ EditFile
    \/ AddFile

SpecTwice == InitTwice /\ [][NextTwice]_vars

-----------------------------------------------------------------------------
(* Two invocations of the script at the same time, for the same version;   *)
(* one that has ended may be followed by another.  The steps of different  *)
(* invocations interleave; the operating system refuses nothing, so every  *)
(* exception comes from the interleaving.                                  *)

RaceArgs == << "9.9.9" >>

MainRace(p) ==
    /\ pc[p] = "idle"
    /\ Invoke(p, RaceArgs)

\* A process that has ended starts the script again.
RerunRace(p) ==
    /\ pc[p] \in {"done", "raised"}
    /\ runs < MaxRaceRuns
    /\ Invoke(p, RaceArgs)

InitRace ==
    /\ src = FullTree
    /\ out \in { << >>, ZipPath(RaceArgs[1]) :> OldArchive(RaceArgs[1]) }
    /\ InitProcs

NextRace ==
    \E p \in Procs :
        \/ MainRace(p)
        \/ RerunRace(p)
        \/ BuildStart(p)
        \/ Mkdir(p)
        \/ CopyItem(p)
        \/ CheckExists(p)
        \/ UnlinkOld(p)
        \/ UnlinkGone(p)
        \/ MakeArchive(p)
        \/ Report(p)
        \/ ReportGone(p)

SpecRace == InitRace /\ [][NextRace]_vars

-----------------------------------------------------------------------------
(* Properties of one invocation (specification Spec).                      *)

\* The directories and files of the script's directory below include entries.
Included(q) == q[1] \in Range(INCLUDE)

\* The folder every member of the archive of version v lies in.
Folder(v) == "PulsoidWidget-to-OSC-v" \o v

\* The path the archive of version v is expected at.
Expected(v) == << "Z:", "Hearttrate", "PulsoidWidget-to-OSC-v" \o v \o ".zip" >>

\* build_release has been entered (its first print has happened).
InBuild(p) == pc[p] \in {"mkdir", "loop", "exists", "unlink", "archive", "report", "done"}

\* C1: a build_release(v) run that completes has written exactly one
\* archive, at <parent of the script's directory>/PulsoidWidget-to-OSC-v<v>.zip
\* with v as it was given, and returns that path.
C1_ArchiveNamedAfterVersion ==
    \A p \in Procs : pc[p] = "done" =>
        /\ result[p] = Expected(version[p])
        /\ result[p] \in DOMAIN out
        /\ out[result[p]].kind = "zip"
        /\ {q \in DOMAIN out : out[q].writer = rid[p]} = {result[p]}
        /\ Len(result[p]) = Len(ScriptDir)
        /\ Parent(result[p]) = Parent(ScriptDir)
        /\ argv[p] = << "9.9.9" >> =>
              result[p] = << "Z:", "Hearttrate", "PulsoidWidget-to-OSC-v9.9.9.zip" >>

\* A completed run for version 9.9.9 that replaced an archive of that name.
C1_Witness ==
    /\ pc[1] = "done"
    /\ argv[1] = << "9.9.9" >>
    /\ Expected("9.9.9") \in DOMAIN outAtStart[1]
    /\ out[Expected("9.9.9")].writer = 1

\* C2 as stated: every file of an include entry that exists is a member of
\* the archive under the path it has relative to the script's directory.
C2_SameRelativePath ==
    \A p \in Procs : pc[p] = "done" =>
        \A q \in DOMAIN src.files :
            Included(q) => q \in DOMAIN out[result[p]].members.files

\* C2, amended: every file of an include entry that exists is a member of
\* the archive, with the same bytes, under the folder PulsoidWidget-to-OSC-v<v>
\* followed by the path it has relative to the script's directory.
C2_SameRelativePathInFolder ==
    \A p \in Procs : pc[p] = "done" =>
        \A q \in DOMAIN src.files :
            Included(q) =>
                LET m == << Folder(version[p]) >> \o q
                    members == out[result[p]].members
                IN  /\ m \in DOMAIN members.files
                    /\ members.files[m] = src.files[q]
                    /\ \A i \in 1 .. Len(m) - 1 : SubSeq(m, 1, i) \in members.dirs

\* A completed run whose code directory holds a file two levels down.
C2_Witness ==
    /\ pc[1] = "done"
    /\ << "code", "lib", "osc.js" >> \in DOMAIN src.files
    /\ << Folder(version[1]), "code", "lib", "osc.js" >>
           \in DOMAIN out[result[1]].members.files

\* The lines the for loop prints.
LoopLines ==
    UNION { { "[WARN] Missing: " \o n, "[OK] Copied directory: " \o n,
              "[OK] Copied file: " \o n } : n \in Range(INCLUDE) }

\* The line the loop is to print for the i-th include entry.
LoopLine(i) ==
    LET n == INCLUDE[i]
    IN  IF << n >> \in src.dirs THEN "[OK] Copied directory: " \o n
        ELSE IF << n >> \in DOMAIN src.files THEN "[OK] Copied file: " \o n
        ELSE "[WARN] Missing: " \o n

IsLoopLine(l) == l \in LoopLines

\* C3: missing include entries do not make build_release raise: each gives
\* one warning and is skipped, the other entries are processed in list
\* order, the archive is created, and nothing of a missing entry is in it.
C3_MissingEntriesSkipped ==
    \A p \in Procs :
        /\ (pc[p] = "raised" /\ raised[p][1] = "copy") =>
               << INCLUDE[idx[p]] >> \in DOMAIN src.files \cup src.dirs
        /\ (pc[p] = "raised" /\ Len(log[p]) > 0) =>
               raised[p][2] # "FileNotFoundError"
        /\ pc[p] = "loop" =>
               SelectSeq(log[p], IsLoopLine) = [i \in 1 .. idx[p] - 1 |-> LoopLine(i)]
        /\ pc[p] = "done" =>
               /\ SelectSeq(log[p], IsLoopLine) = [i \in 1 .. Len(INCLUDE) |-> LoopLine(i)]
               /\ out[result[p]].kind = "zip"
               /\ out[result[p]].writer = rid[p]
               /\ \A m \in DOMAIN out[result[p]].members.files
                           \cup out[result[p]].members.dirs :
                      Len(m) > 1 => /\ m[2] \in Range(INCLUDE)
                                    /\ << m[2] >> \in DOMAIN src.files \cup src.dirs

\* A completed run with code and one more entry missing and README.md there.
C3_Witness ==
    /\ pc[1] = "done"
    /\ ~Exists(src, << "code" >>)
    /\ ~Exists(src, << "run.bat" >>)
    /\ "[WARN] Missing: code" \in Range(log[1])
    /\ "[WARN] Missing: run.bat" \in Range(log[1])
    /\ << Folder(version[1]), "README.md" >> \in DOMAIN out[result[1]].members.files

\* C5: once a run has left the with statement (normally or by an exception
\* of any step), its temporary directory and all in it are gone.
C5_StagingRemoved ==
    \A p \in Procs :
        pc[p] \in {"report", "done", "raised"} =>
            /\ tempDir[p] \notin DOMAIN tmp
            /\ DOMAIN tmp = {}

\* A run ended by a failure of make_archive, after staging every entry.
C5_Witness ==
    /\ pc[1] = "raised"
    /\ raised[1] = << "make_archive", "OSError" >>
    /\ tempDir[1] \in TempNames
    /\ idx[1] = Len(INCLUDE) + 1

\* The text of package.json, "" when there is no such file.
PackageText == IF PackagePath \in DOMAIN src.files THEN src.files[PackagePath] ELSE ""

\* C6: with a command-line argument, the argument is the version and
\* package.json is never read; without one, the version is the "version"
\* field of package.json, "0.0.0" when the field is absent.  build_release
\* is called with exactly that string.
C6_VersionResolution ==
    \A p \in Procs :
        /\ (pc[p] # "idle" /\ Len(argv[p]) > 0) =>
               /\ version[p] = argv[p][1]
               /\ ~metaRead[p]
        /\ (InBuild(p) /\ Len(argv[p]) = 0) =>
               /\ metaRead[p]
               /\ PackageText \in { "{\"version\": \"2.0.0\"}", "{\"name\": \"pulsoid\"}" }
               /\ PackageText = "{\"version\": \"2.0.0\"}" => version[p] = "2.0.0"
               /\ PackageText = "{\"name\": \"pulsoid\"}" => version[p] = "0.0.0"
        /\ InBuild(p) =>
               /\ version[p] # NoVersion
               /\ Len(log[p]) >= 2
               /\ \E i \in 1 .. Len(log[p]) - 1 :
                      /\ log[p][i] = "[BUILD] Creating release v" \o version[p]
                      /\ log[p][i + 1] = "[BUILD] Output: Z:/Hearttrate/PulsoidWidget-to-OSC-v"
                                             \o version[p] \o ".zip"
        /\ (pc[p] = "done" /\ argv[p] = << "9.9.9" >>) =>
               result[p] = << "Z:", "Hearttrate", "PulsoidWidget-to-OSC-v9.9.9.zip" >>

\* A completed run given 9.9.9 while package.json says 2.0.0.
C6_Witness ==
    /\ pc[1] = "done"
    /\ argv[1] = << "9.9.9" >>
    /\ PackageText = "{\"version\": \"2.0.0\"}"
    /\ ~metaRead[1]
    /\ result[1] = << "Z:", "Hearttrate", "PulsoidWidget-to-OSC-v9.9.9.zip" >>

\* package.json is missing, is not JSON, or is JSON but not an object.
MetadataBad == PackageText \notin { "{\"version\": \"2.0.0\"}", "{\"name\": \"pulsoid\"}" }

\* C7 as stated: without a version argument, a missing or malformed
\* package.json makes version resolution raise no error.
C7_MetadataFailureRaisesNothing ==
    \A p \in Procs :
        (pc[p] # "idle" /\ Len(argv[p]) = 0 /\ MetadataBad) =>
            ~(pc[p] = "raised" /\ raised[p][1] = "get_version_from_package"
                               /\ raised[p][2] \in {"FileNotFoundError", "JSONDecodeError",
                                                    "AttributeError"})

\* C7, amended: without a version argument, a missing or malformed
\* package.json makes version resolution raise (FileNotFoundError for a
\* missing file, JSONDecodeError for a text that is not JSON, AttributeError
\* for JSON that is not an object, unless the open itself is refused), and
\* the run ends there, before build_release starts.
C7_MetadataFailureRaises ==
    \A p \in Procs :
        (pc[p] \notin {"idle", "getver"} /\ Len(argv[p]) = 0 /\ MetadataBad) =>
            /\ pc[p] = "raised"
            /\ raised[p][1] = "get_version_from_package"
            /\ PackageText = "" => raised[p][2] = "FileNotFoundError"
            /\ PackageText = "{\"version\": " =>
                   raised[p][2] \in {"JSONDecodeError", "PermissionError"}
            /\ PackageText = "[]" =>
                   raised[p][2] \in {"AttributeError", "PermissionError"}
            /\ version[p] = NoVersion
            /\ log[p] = << >>
            /\ tempDir[p] = NoTemp
            /\ out = outAtStart[p]

\* A run without argument ended by package.json not being JSON.
C7_Witness ==
    /\ pc[1] = "raised"
    /\ argv[1] = << >>
    /\ PackageText = "{\"version\": "
    /\ raised[1] = << "get_version_from_package", "JSONDecodeError" >>

\* The number of entries the loop has printed a line for.
Processed(p) == Len(SelectSeq(log[p], IsLoopLine))

\* The state part of C8.
FailFastState ==
    \A p \in Procs :
        /\ pc[p] = "raised" =>
              /\ result[p] = NoPath
              /\ "[BUILD] Done! Created: Z:/Hearttrate/PulsoidWidget-to-OSC-v"
                     \o version[p] \o ".zip" \notin Range(log[p])
              /\ "[BUILD] Size" \notin Range(log[p])
              /\ raised[p][1] = "get_version_from_package" =>
                     /\ log[p] = << >> /\ tempDir[p] = NoTemp
                     /\ out = outAtStart[p] /\ unlinked = {}
              /\ raised[p][1] \in {"TemporaryDirectory", "mkdir"} =>
                     /\ Processed(p) = 0 /\ out = outAtStart[p] /\ unlinked = {}
              /\ raised[p][1] = "copy" =>
                     /\ Processed(p) = idx[p] - 1 /\ idx[p] <= Len(INCLUDE)
                     /\ out = outAtStart[p] /\ unlinked = {}
              /\ raised[p][1] = "unlink" =>
                     /\ out = outAtStart[p] /\ unlinked = {}
              /\ raised[p][1] = "make_archive" =>
                     \A q \in DOMAIN out : out[q].writer = rid[p] => out[q].kind = "partial"
        /\ pc[p] = "archive" => Expected(version[p]) \notin DOMAIN out
        /\ pc[p] = "done" => raised[p] = NoError

\* The step part of C8: a run that has raised does nothing more.
FailFastStep ==
    \A p \in Procs :
        pc[p] = "raised" =>
            /\ pc'[p] = "raised"
            /\ UNCHANGED << out, tmp, log, result, raised, unlinked, vanished
                            >>

\* C8: every failure other than a missing include entry ends the run at the
\* failing step: no later step runs, nothing is retried or rolled back, no
\* success is reported and no path returned; a failure of version
\* resolution ends the run before build_release creates or deletes anything.
C8_FailFast == []FailFastState /\ [][FailFastStep]_vars

\* A run ended by the refusal to delete the old archive.
C8_Witness ==
    /\ pc[1] = "raised"
    /\ raised[1] = << "unlink", "PermissionError" >>
    /\ Expected(version[1]) \in DOMAIN out
    /\ Processed(1) = Len(INCLUDE)

\* C9: an archive already at the output path is deleted only after every
\* include entry has been processed and before make_archive starts: a run
\* ended by a copy leaves it as it was, a run ended by make_archive has it
\* gone (or replaced by what make_archive left).
C9_DeleteAfterCopyBeforeArchive ==
    \A p \in Procs :
        LET zp == Expected(version[p])
        IN  /\ pc[p] \in {"getver", "build", "mkdir", "loop", "exists", "unlink"} =>
                   out = outAtStart[p]
            /\ pc[p] \in {"exists", "unlink", "archive"} =>
                   /\ idx[p] = Len(INCLUDE) + 1
                   /\ Processed(p) = Len(INCLUDE)
            /\ pc[p] = "archive" =>
                   /\ DOMAIN out = DOMAIN outAtStart[p] \ {zp}
                   /\ \A q \in DOMAIN out : out[q] = outAtStart[p][q]
            /\ (pc[p] = "raised" /\ raised[p][1] = "copy") => out = outAtStart[p]
            /\ (pc[p] = "raised" /\ raised[p][1] = "make_archive"
                                 /\ zp \in DOMAIN outAtStart[p]) =>
                   /\ << rid[p], 0 >> \in unlinked
                   /\ zp \in DOMAIN out => /\ out[zp].kind = "partial"
                                           /\ out[zp] # outAtStart[p][zp]

\* A run ended by make_archive after it deleted the old archive.
C9_Witness ==
    /\ pc[1] = "raised"
    /\ raised[1] = << "make_archive", "OSError" >>
    /\ Expected(version[1]) \in DOMAIN outAtStart[1]
    /\ Expected(version[1]) \notin DOMAIN out

-----------------------------------------------------------------------------
(* Properties of a run after a run (specification SpecTwice).              *)

\* What an archive of version v made from `tree` holds: the folder, and
\* below it every directory and file of the include entries.
MembersOf(tree, v) ==
    [files |-> [m \in {<< Folder(v) >> \o q : q \in {r \in DOMAIN tree.files : Included(r)}} |->
                   tree.files[Tail(m)]],
     dirs  |-> {<< Folder(v) >>}
                   \cup {<< Folder(v) >> \o q : q \in {r \in tree.dirs : Included(r)}}]

\* C4: a completed run that finds the archive an earlier run completed for
\* the same version replaces it: the archive then holds exactly what this
\* run staged from the tree as it was at this run, nothing that only the
\* earlier run saw; with the tree unchanged the contents are those of the
\* earlier run.
C4_RerunOverwrites ==
    \A p \in Procs :
        LET zp == Expected(version[p])
            old == outAtStart[p]
        IN  (/\ pc[p] = "done"
             /\ zp \in DOMAIN old
             /\ old[zp].kind = "zip"
             /\ old[zp].writer \in 1 .. rid[p] - 1) =>
                /\ out[zp].kind = "zip"
                /\ out[zp].writer = rid[p]
                /\ out[zp].members = MembersOf(srcAt[rid[p]], version[p])
                /\ srcAt[old[zp].writer] = srcAt[rid[p]] =>
                       out[zp].members = old[zp].members
                /\ DOMAIN out = DOMAIN old

\* A second completed run for the version of the first, after an include
\* entry the first run archived has been deleted.
C4_Witness ==
    /\ pc[1] = "done"
    /\ rid[1] = 2
    /\ Expected(version[1]) \in DOMAIN outAtStart[1]
    /\ outAtStart[1][Expected(version[1])].writer = 1
    /\ outAtStart[1][Expected(version[1])].kind = "zip"
    /\ \E m \in DOMAIN outAtStart[1][Expected(version[1])].members.files :
           m \notin DOMAIN out[Expected(version[1])].members.files

-----------------------------------------------------------------------------
(* Properties of concurrent runs (specification SpecRace).                 *)

\* The run is inside the with statement.
InWith(p) == pc[p] \in {"mkdir", "loop", "exists", "unlink", "archive"}

\* C10: concurrent runs for one version share nothing but the output path:
\* each has a temporary directory of its own, holding what it staged; a
\* run is ended only by the other's deletion of the archive, either between
\* its own exists() and unlink() (unlink raises FileNotFoundError) or after
\* its own make_archive (stat raises FileNotFoundError).
C10_RaceOnOutputPath ==
    /\ \A p, q \in Procs :
           (p # q /\ InWith(p) /\ InWith(q)) => tempDir[p] # tempDir[q]
    /\ \A p \in Procs :
           InWith(p) =>
               /\ tempDir[p] \in DOMAIN tmp
               /\ pc[p] # "mkdir" =>
                      DOMAIN tmp[tempDir[p]].files
                          = {<< Folder(version[p]) >> \o q :
                                q \in {r \in DOMAIN src.files :
                                          \E i \in 1 .. idx[p] - 1 : r[1] = INCLUDE[i]}}
    /\ \A p \in Procs :
           pc[p] = "raised" =>
               /\ raised[p] \in {<< "unlink", "FileNotFoundError" >>,
                                 << "stat", "FileNotFoundError" >>}
               /\ << rid[p], raised[p][1] >> \in vanished
    /\ \A f \in vanished : \E d \in unlinked : d[1] # f[1]

\* Both interleavings have happened: a run was ended by unlink() because
\* the archive it had seen was deleted by the other run, and a run has just
\* deleted the archive the other run wrote and has not yet reported.
C10_Witness ==
    /\ \E f \in vanished : f[2] = "unlink"
    /\ \E p, q \in Procs :
           /\ pc[p] = "report"
           /\ pc[q] = "archive"
           /\ << rid[q], rid[p] >> \in unlinked
           /\ Expected(version[p]) \notin DOMAIN out

====
